---- MODULE Spec2Model ----
(***************************************************************************)
(* Model of the SimpleGlobe component (src/unnamed/part_003): the lock /   *)
(* free orientation state machine, the per-frame animate() loop, the       *)
(* pointer handlers, the React effects that follow a change of props, and  *)
(* the mount-effect cleanup.                                               *)
(*                                                                         *)
(* Numbers.  Angles and camera distance are JavaScript doubles in the      *)
(* source.  They are held here as integers in units of 1e-6 (micro-radian  *)
(* for angles, 1e-6 scene units for the camera distance); a product with a *)
(* decimal factor (0.05, 0.06) is rounded toward zero to the next unit.    *)
(* Degrees are converted with pi/180 = 17453e-6.                           *)
(***************************************************************************)
EXTENDS Integers, Sequences, FiniteSets, TLC

VARIABLES
    markers,            \* prop markers: sequence of [lat, long] in degrees
    targetMarkerIndex,  \* prop targetMarkerIndex
    isLocked,           \* prop isLocked
    hasOnUnlock,        \* prop onUnlock was supplied at mount
    hasOnLock,          \* prop onLock was supplied at mount
    hasOnMarkerClick,   \* prop onMarkerClick was supplied at mount
    isLockedRef,        \* isLockedRef.current
    targetRotationY,    \* animationRef.current.targetRotationY
    targetRotationX,    \* animationRef.current.targetRotationX
    isAnimating,        \* animationRef.current.isAnimating
    targetCameraZ,      \* animationRef.current.targetCameraZ
    rotY,               \* globeYRotationGroup.rotation.y
    rotX,               \* globeYRotationGroup.rotation.x
    cameraZ,            \* camera.position.z
    isDragging,         \* let isDragging
    previousMousePosition, \* let previousMousePosition, <<x, y>>
    hoveredMarker,      \* let hoveredMarker: a pin or NoPin
    pins,               \* markerGroup.children
    markerMeshes,       \* sceneRef.current.markerMeshes
    sceneLive,          \* sceneRef.current holds the scene objects
    frameCount,         \* let frameCount
    rafScheduled,       \* a requestAnimationFrame(animate) callback is pending
    listeners,          \* the window listeners currently registered
    disposed,           \* the mount-effect cleanup has run
    lastCalls,          \* the prop callbacks invoked by the latest step, in order
    disposeCalls,       \* the dispose() calls made by the latest step, in order
    viewport,           \* the size given to renderer.setSize, <<width, height>>
    pinStyles,          \* per pin of markerGroup: its height scale and its color
    pinScales,          \* per pin of markerGroup: its scale, in thousandths
    frameLog,           \* the steps the latest call of animate took, in order
    cursor,             \* mountRef.current.style.cursor
    targetSet           \* history: frameCount and distance to the target when the
                        \* rotation target was last set

vars == << markers, targetMarkerIndex, isLocked, hasOnUnlock, hasOnLock,
           hasOnMarkerClick, isLockedRef, targetRotationY, targetRotationX,
           isAnimating, targetCameraZ, rotY, rotX, cameraZ, isDragging,
           previousMousePosition, hoveredMarker, pins,
           markerMeshes, sceneLive, frameCount, rafScheduled, listeners,
           disposed, lastCalls, disposeCalls, viewport, pinStyles, pinScales,
           frameLog, cursor, targetSet >>

(***************************************************************************)
(* Program constants                                                       *)
(***************************************************************************)
ZOOM_OUT == 4500000
ZOOM_IN == 2500000
offsetDegreesY == 80
passiveSpin == 1000
rotationSpeed == 5000
rotationEpsilon == 1000
zoomEpsilon == 10000
raycastEvery == 3
hoverScale == 1200
restScale == 1000

(***************************************************************************)
(* Bounds of the model                                                     *)
(***************************************************************************)
MaxFrames == 3
MaxConvFrames == 400
ConvRetargetBy == 150
RotCap == 1200000
MaxHoverFrames == 6
MaxLifeFrames == 6
MaxDepth == 2
ConvRotCap == 40000000

Abs(a) == IF a >= 0 THEN a ELSE -a

\* a * num / den in a double, rounded toward zero to the unit
Scale(a, num, den) == IF a >= 0 THEN (a * num) \div den ELSE -(((-a) * num) \div den)

DegToRad(d) == d * 17453

\* the markers the caller may supply (lat, long in degrees)
MarkerA == [lat |-> 0, long |-> 0]
MarkerB == [lat |-> 45, long |-> 90]
MarkerC == [lat |-> 0, long |-> 80]

MarkerLists == { << >>, << MarkerA >>, << MarkerB, MarkerA >> }

\* which of onUnlock, onLock, onMarkerClick the caller supplies
CallbackSets == { << TRUE, TRUE, TRUE >> }

Indexes == (0 - 1) .. 1

Points == { << 0, 0 >>, << 200, 100 >> }
DownPoints == { << 0, 0 >> }
ConvPoints == { << 0, 0 >>, << 3840, 0 >> }
ConvMarkerLists == { << MarkerB, MarkerA >>, << MarkerB >> }

EventNames == { "mousemove", "mousedown", "mouseup", "resize" }

NoPin == [gen |-> "none", markerIndex |-> 0 - 1]

InRange(i, ms) == i >= 0 /\ i < Len(ms)

\* rotateToMarker / the mount effect's initial rotation: the target angles
TargetY(m) == (0 - DegToRad(m.long)) + DegToRad(offsetDegreesY)
TargetX(m) == DegToRad(m.lat)

\* the mount effect computing the initial target without the offset
InitialTargetY_NoOffset(m) == 0 - DegToRad(m.long)

\* the mount effect, initial rotation: the target angles (offsetDegrees = 80)
InitialTargetY(m) == (0 - DegToRad(m.long)) + DegToRad(80)
InitialTargetX(m) == DegToRad(m.lat)

\* the marker effect: one pin group per marker, userData.markerIndex = index
BuildPins(ms) == [k \in 1 .. Len(ms) |-> [gen |-> "cur", markerIndex |-> k - 1]]

\* the marker effect: every mesh of every pin (head, then stem) is pushed
BuildMeshes(ms) ==
    [k \in 1 .. 2 * Len(ms) |->
        [pin |-> [gen |-> "cur", markerIndex |-> (k - 1) \div 2],
         part |-> IF k % 2 = 1 THEN "head" ELSE "stem"]]

\* a pin object that the marker effect has removed from markerGroup
Retire(p) == IF p.gen = "cur" THEN [p EXCEPT !.gen = "old"] ELSE p

\* the larger of the two per-axis distances between a rotation and a target
Distance(y, x, ty, tx) == IF Abs(ty - y) >= Abs(tx - x) THEN Abs(ty - y) ELSE Abs(tx - x)

\* animate adding 1.06 of the difference to the camera distance
ZoomStep_Overshoot(z, tz) ==
    IF Abs(tz - z) > zoomEpsilon THEN z + Scale(tz - z, 106, 100) ELSE z

\* animate: camera zoom smoothing
ZoomStep(z, tz) ==
    IF Abs(tz - z) > zoomEpsilon THEN z + Scale(tz - z, 6, 100) ELSE z

\* animate with a lerp factor of 0.005
LerpStep_Slow(cur, target) == cur + Scale(target - cur, 5, 1000)

\* animate: one interpolation step of a rotation angle toward its target
LerpStep(cur, target) == cur + Scale(target - cur, 5, 100)

\* animate stopping on the Y delta alone
RotationComplete_YOnly(dY, dX) == Abs(dY) < rotationEpsilon

\* animate: the test that stops the animation
RotationComplete(dY, dX) == Abs(dY) < rotationEpsilon /\ Abs(dX) < rotationEpsilon

(***************************************************************************)
(* Graphics resources.  A resource is named by the object that holds it,   *)
(* the index of the pin it belongs to (-1 for none) and its kind.          *)
(***************************************************************************)
Resource(object, pin, kind) == [object |-> object, pin |-> pin, kind |-> kind]

RendererResource == Resource("renderer", 0 - 1, "renderer")

\* createPinGeometry: the class of the object the marker effect adds to markerGroup
PinClass == "Group"

\* the marker effect, clear loop: the dispose() calls made for the children
\* removed from markerGroup (geometry, then material, of a child that is a Mesh)
DisposedOnClear(children) ==
    IF PinClass = "Mesh"
    THEN [k \in 1 .. 2 * Len(children) |->
            Resource("pin", children[(k + 1) \div 2].markerIndex,
                     IF k % 2 = 1 THEN "geometry" ELSE "material")]
    ELSE << >>

\* the cleanup of the mount effect: the dispose() calls it makes
DisposedOnCleanup == << RendererResource >>

\* the cleanup leaving the mousedown listener registered
RemovedListeners_NoMouseDown == { "mousemove", "mouseup", "resize" }

\* the cleanup of the mount effect: the window listeners it removes
RemovedListeners == { "mousemove", "mousedown", "mouseup", "resize" }

(***************************************************************************)
(* Pin appearance.  Height scales are in units of 1e-3.  A marker record   *)
(* has the field confidence or color only when the caller supplied it.     *)
(***************************************************************************)
\* marker.confidence || 50
ConfidenceOrDefault(m) ==
    IF "confidence" \in DOMAIN m /\ m.confidence # 0 THEN m.confidence ELSE 50

\* createPinGeometry: heightScale = 0.5 + (confidence / 100) * 1.5
HeightScale(confidence) == 500 + confidence * 15

\* Math.max(0, Math.min(100, confidence))
Clamp(confidence) ==
    IF confidence > 100 THEN 100 ELSE IF confidence < 0 THEN 0 ELSE confidence

\* Math.round(num / den) for den > 0: the nearest integer, halves upward
Round(num, den) == (2 * num + den) \div (2 * den)

Css(r, g, b) ==
    "rgb(" \o ToString(r) \o ", " \o ToString(g) \o ", " \o ToString(b) \o ")"

\* getConfidenceColor: t = conf / 100, two linear halves meeting at t = 0.5
GetConfidenceColor(confidence) ==
    LET conf == Clamp(confidence)
    IN  IF conf < 50
        THEN Css(Round(50 * 50 + (0 - 50) * conf, 50),
                 Round(100 * 50 + (200 - 100) * conf, 50),
                 Round(255 * 50 + (200 - 255) * conf, 50))
        ELSE Css(Round(0 * 50 + (50 - 0) * (conf - 50), 50),
                 Round(200 * 50 + (255 - 200) * (conf - 50), 50),
                 Round(200 * 50 + (100 - 200) * (conf - 50), 50))

\* the marker effect: markerColor of the pin at index
MarkerColor(m, index, locked, target) ==
    IF locked /\ index = target
    THEN "#ff0000"
    ELSE IF "color" \in DOMAIN m /\ m.color # ""
         THEN m.color
         ELSE GetConfidenceColor(ConfidenceOrDefault(m))

\* the marker effect: height scale and color of every pin it builds
BuildStyles(ms, target, locked) ==
    [k \in 1 .. Len(ms) |->
        [heightScale |-> HeightScale(ConfidenceOrDefault(ms[k])),
         color |-> MarkerColor(ms[k], k - 1, locked, target)]]

\* the marker effect: a pin is added at the scale of a new Object3D
BuildScales(ms) == [k \in 1 .. Len(ms) |-> restScale]

\* animate running handleRaycast on every frame
RaycastDue_Every(count) == TRUE

\* animate: frameCount % 3 === 0
RaycastDue(count) == count % raycastEvery = 0

\* animate drawing before it updates the zoom and the rotation
FrameSteps_RenderFirst(due) ==
    (IF due THEN << "handleRaycast" >> ELSE << >>)
    \o << "stars", "render", "zoom", "rotation", "requestAnimationFrame" >>

\* animate: the steps of one call, in the order it takes them
FrameSteps(due) ==
    (IF due THEN << "handleRaycast" >> ELSE << >>)
    \o << "stars", "zoom", "rotation", "render", "requestAnimationFrame" >>

\* animate calling onLock on the frames that run the hit test
FrameCalls_LockOnHitTest(due) == IF due THEN << << "onLock" >> >> ELSE << >>

\* animate and handleRaycast: the prop callbacks one frame invokes
FrameCalls(due) == << >>

\* window.innerWidth, window.innerHeight
DefaultViewport == << 1280, 720 >>
Viewports == { << 1280, 720 >>, << 800, 600 >> }

\* the mount effect finding targetCameraZ as useRef initialised it
MountZoom_NoSync(locked, inRange) ==
    IF locked /\ inRange THEN ZOOM_IN ELSE ZOOM_OUT

\* the mount effect, initial rotation: targetCameraZ once it has run.  It
\* assigns ZOOM_IN when locked with an index in range and ZOOM_OUT when not
\* locked; otherwise the value is the one the lock-sync effect, which runs
\* before it, assigned for a locked globe
MountZoom(locked, inRange) ==
    IF locked /\ inRange
    THEN ZOOM_IN
    ELSE IF ~locked THEN ZOOM_OUT ELSE ZOOM_IN

(***************************************************************************)
(* Init: the state once the component has mounted.  The effects run in     *)
(* source order: the lock-sync effect, the target effect (which returns,   *)
(* the scene not existing yet), the mount effect (which calls animate()    *)
(* once and then sets the initial rotation target), the marker effect.     *)
(***************************************************************************)
Mount(lists) ==
    /\ markers \in lists
    /\ targetMarkerIndex \in Indexes
    /\ isLocked \in BOOLEAN
    /\ \E c \in CallbackSets :
         /\ hasOnUnlock = c[1]
         /\ hasOnLock = c[2]
         /\ hasOnMarkerClick = c[3]
    /\ isLockedRef = isLocked
    /\ frameCount = 1
    /\ cameraZ = ZoomStep(ZOOM_OUT, IF isLocked THEN ZOOM_IN ELSE ZOOM_OUT)
    /\ rotY = IF isLocked THEN 0 ELSE passiveSpin
    /\ rotX = 0
    /\ IF isLocked /\ Len(markers) > 0 /\ InRange(targetMarkerIndex, markers)
       THEN /\ targetRotationY = InitialTargetY(markers[targetMarkerIndex + 1])
            /\ targetRotationX = InitialTargetX(markers[targetMarkerIndex + 1])
            /\ isAnimating = TRUE
       ELSE /\ targetRotationY = 0
            /\ targetRotationX = 0
            /\ isAnimating = FALSE
    /\ targetCameraZ = MountZoom(isLocked, Len(markers) > 0 /\ InRange(targetMarkerIndex, markers))
    /\ isDragging = FALSE
    /\ previousMousePosition = << 0, 0 >>
    /\ hoveredMarker = NoPin
    /\ pins = BuildPins(markers)
    /\ markerMeshes = BuildMeshes(markers)
    /\ sceneLive = TRUE
    /\ rafScheduled = TRUE
    /\ listeners = EventNames
    /\ disposed = FALSE
    /\ lastCalls = << >>
    /\ disposeCalls = << >>
    /\ viewport = DefaultViewport
    /\ pinStyles = BuildStyles(markers, targetMarkerIndex, isLocked)
    /\ pinScales = BuildScales(markers)
    /\ frameLog = FrameSteps(RaycastDue(1))
    /\ cursor = "grab"
    /\ targetSet = [frame |-> 1, distance |-> 0]

Init == Mount(MarkerLists)

(***************************************************************************)
(* handleRaycast: hit is the index in markerMeshes of the nearest mesh the *)
(* pointer ray intersects, 0 when it intersects none.  Which mesh that is  *)
(* depends on the pointer and on the scene geometry; it is an input here.  *)
(***************************************************************************)
HoveredPinGroup(hit) == IF hit = 0 THEN NoPin ELSE markerMeshes[hit].pin

(***************************************************************************)
(* The pointer ray.  A ray is a function from the indexes of the meshes of *)
(* markerMeshes that it intersects to the distance of the intersection     *)
(* from the camera.  raycaster.intersectObjects returns the intersections  *)
(* sorted by distance, nearest first; of two intersections at the same     *)
(* distance the one of the mesh that comes first in the list comes first.  *)
(***************************************************************************)
Depths == 1 .. MaxDepth

Rays(n) == UNION { [S -> Depths] : S \in SUBSET (1 .. n) }

Intersection(ray, k) == [object |-> k, distance |-> ray[k]]

RECURSIVE IntersectFrom(_, _)
IntersectFrom(ray, left) ==
    IF left = {}
    THEN << >>
    ELSE LET first == CHOOSE k \in left :
                        \A j \in left :
                            \/ ray[k] < ray[j]
                            \/ (ray[k] = ray[j] /\ k <= j)
         IN  << Intersection(ray, first) >> \o IntersectFrom(ray, left \ { first })

IntersectObjects(ray) == IntersectFrom(ray, DOMAIN ray)

\* handleRaycast taking the last intersection of the list
FirstObject_Last(markerIntersects) ==
    IF Len(markerIntersects) > 0
    THEN markerIntersects[Len(markerIntersects)].object ELSE 0

\* handleRaycast: markerIntersects[0].object, 0 when the list is empty
FirstObject(markerIntersects) ==
    IF Len(markerIntersects) > 0 THEN markerIntersects[1].object ELSE 0

\* the meshes handleRaycast can start from, over the rays of the pointer
RayHits == { FirstObject(IntersectObjects(ray)) : ray \in Rays(Len(markerMeshes)) }

HandleRaycast(hit) ==
    IF Len(markerMeshes) > 0
    THEN LET hoveredPinGroup == HoveredPinGroup(hit)
             afterReset == IF hoveredMarker # NoPin /\ hoveredMarker # hoveredPinGroup
                           THEN NoPin ELSE hoveredMarker
         IN  IF hoveredPinGroup # NoPin /\ hoveredPinGroup # afterReset
             THEN hoveredPinGroup ELSE afterReset
    ELSE hoveredMarker

\* scale.setScalar(value) on the pin object p: a pin that the marker effect
\* has removed is no longer among the pins of markerGroup
SetScalar(scales, p, value) ==
    IF p.gen = "cur" /\ p.markerIndex + 1 \in DOMAIN scales
    THEN [scales EXCEPT ![p.markerIndex + 1] = value]
    ELSE scales

\* handleRaycast: the scales of the pins after the call
RaycastScales(hit) ==
    IF Len(markerMeshes) > 0
    THEN LET hoveredPinGroup == HoveredPinGroup(hit)
             resets == hoveredMarker # NoPin /\ hoveredMarker # hoveredPinGroup
             afterReset == IF resets THEN NoPin ELSE hoveredMarker
             scalesAfterReset == IF resets
                                 THEN SetScalar(pinScales, hoveredMarker, restScale)
                                 ELSE pinScales
         IN  IF hoveredPinGroup # NoPin /\ hoveredPinGroup # afterReset
             THEN SetScalar(scalesAfterReset, hoveredPinGroup, hoverScale)
             ELSE scalesAfterReset
    ELSE pinScales

\* handleRaycast leaving the cursor alone when it resets the hovered pin
RaycastCursor_NoReset(hit) ==
    IF Len(markerMeshes) > 0
    THEN LET hoveredPinGroup == HoveredPinGroup(hit)
             resets == hoveredMarker # NoPin /\ hoveredMarker # hoveredPinGroup
             afterReset == IF resets THEN NoPin ELSE hoveredMarker
         IN  IF hoveredPinGroup # NoPin /\ hoveredPinGroup # afterReset
             THEN "pointer" ELSE cursor
    ELSE cursor

\* handleRaycast: the cursor of the mount element after the call
RaycastCursor(hit) ==
    IF Len(markerMeshes) > 0
    THEN LET hoveredPinGroup == HoveredPinGroup(hit)
             resets == hoveredMarker # NoPin /\ hoveredMarker # hoveredPinGroup
             afterReset == IF resets THEN NoPin ELSE hoveredMarker
             cursorAfterReset == IF resets THEN "grab" ELSE cursor
         IN  IF hoveredPinGroup # NoPin /\ hoveredPinGroup # afterReset
             THEN "pointer" ELSE cursorAfterReset
    ELSE cursor

\* animate taking the rotation branch during a drag as well
Converging_WhileDragging == isLockedRef /\ isAnimating

\* animate: the rotation branch is taken
Converging == isLockedRef /\ isAnimating /\ ~isDragging

\* animate spinning the globe whatever the lock flag
Spinning_WhileLocked == ~Converging /\ ~isDragging /\ ~isAnimating

\* animate: the passive-spin branch is taken
Spinning == ~Converging /\ ~isLockedRef /\ ~isDragging /\ ~isAnimating

\* animate: whether the callback is requested again at the end of the frame
Rearm == TRUE

(***************************************************************************)
(* animate: one frame.                                                     *)
(***************************************************************************)
Animate(maxF, hits) ==
    /\ rafScheduled
    /\ frameCount < maxF
    /\ frameCount' = frameCount + 1
    /\ IF RaycastDue(frameCount')
       THEN \E hit \in hits : /\ hoveredMarker' = HandleRaycast(hit)
                              /\ pinScales' = RaycastScales(hit)
                              /\ cursor' = RaycastCursor(hit)
       ELSE UNCHANGED << hoveredMarker, pinScales, cursor >>
    /\ frameLog' = FrameSteps(RaycastDue(frameCount'))
    /\ cameraZ' = ZoomStep(cameraZ, targetCameraZ)
    /\ IF Converging
       THEN /\ rotY' = LerpStep(rotY, targetRotationY)
            /\ rotX' = LerpStep(rotX, targetRotationX)
            /\ isAnimating' =
                 IF RotationComplete(targetRotationY - rotY, targetRotationX - rotX)
                 THEN FALSE ELSE isAnimating
       ELSE /\ rotY' = IF Spinning THEN rotY + passiveSpin ELSE rotY
            /\ rotX' = rotX
            /\ isAnimating' = isAnimating
    /\ rafScheduled' = Rearm
    /\ lastCalls' = FrameCalls(RaycastDue(frameCount'))
    /\ disposeCalls' = << >>
    /\ UNCHANGED << markers, targetMarkerIndex, isLocked, hasOnUnlock, hasOnLock,
                    hasOnMarkerClick, isLockedRef, targetRotationY, targetRotationX,
                    targetCameraZ, isDragging, previousMousePosition,
                    pins, markerMeshes, sceneLive, listeners, disposed,
                    viewport, pinStyles, targetSet >>

\* onMouseMove adding half the pointer movement times rotationSpeed
DragDelta_Half(from, to) == ((to - from) * rotationSpeed) \div 2

\* onMouseMove: what a pointer movement along one axis adds to the rotation
DragDelta(from, to) == (to - from) * rotationSpeed

(***************************************************************************)
(* onMouseMove                                                             *)
(***************************************************************************)
OnMouseMove(p, cap) ==
    /\ "mousemove" \in listeners
    /\ IF isDragging
       THEN /\ rotY' = rotY + DragDelta(previousMousePosition[1], p[1])
            /\ rotX' = rotX + DragDelta(previousMousePosition[2], p[2])
            /\ previousMousePosition' = p
            /\ Abs(rotY') <= cap
            /\ Abs(rotX') <= cap
       ELSE UNCHANGED << rotY, rotX, previousMousePosition >>
    /\ lastCalls' = << >>
    /\ disposeCalls' = << >>
    /\ UNCHANGED << markers, targetMarkerIndex, isLocked, hasOnUnlock, hasOnLock,
                    hasOnMarkerClick, isLockedRef, targetRotationY, targetRotationX,
                    isAnimating, targetCameraZ, cameraZ, isDragging, hoveredMarker,
                    pins, markerMeshes, sceneLive, frameCount, rafScheduled,
                    listeners, disposed, viewport, pinStyles, pinScales, frameLog, cursor, targetSet >>

\* onMouseDown notifying the marker click only
PinClickCalls_NoLock ==
    IF hasOnMarkerClick
    THEN << << "onMarkerClick", hoveredMarker.markerIndex >> >> ELSE << >>

\* onMouseDown: the callbacks a click on the hovered pin invokes, in order
PinClickCalls ==
    (IF hasOnLock THEN << << "onLock" >> >> ELSE << >>)
    \o (IF hasOnMarkerClick
        THEN << << "onMarkerClick", hoveredMarker.markerIndex >> >> ELSE << >>)

\* onMouseDown calling onUnlock without looking at the lock flag
GlobeClickCalls_NoGuard ==
    IF hasOnUnlock THEN << << "onUnlock" >> >> ELSE << >>

\* onMouseDown: the callbacks a pointer-down that is not on a pin invokes
GlobeClickCalls ==
    IF isLockedRef /\ hasOnUnlock THEN << << "onUnlock" >> >> ELSE << >>

\* onMouseDown without the return that ends the marker branch
OnMouseDown_DragOnPin(p) ==
    /\ "mousedown" \in listeners
    /\ lastCalls' = IF hoveredMarker # NoPin
                    THEN PinClickCalls \o GlobeClickCalls ELSE GlobeClickCalls
    /\ isDragging' = TRUE
    /\ previousMousePosition' = p
    /\ disposeCalls' = << >>
    /\ UNCHANGED << markers, targetMarkerIndex, isLocked, hasOnUnlock, hasOnLock,
                    hasOnMarkerClick, isLockedRef, targetRotationY, targetRotationX,
                    isAnimating, targetCameraZ, rotY, rotX, cameraZ,
                    hoveredMarker, pins, markerMeshes, sceneLive, frameCount,
                    rafScheduled, listeners, disposed, viewport, pinStyles,
                    pinScales, frameLog, cursor, targetSet >>

(***************************************************************************)
(* onMouseDown                                                             *)
(***************************************************************************)
OnMouseDown(p) ==
    /\ "mousedown" \in listeners
    /\ IF hoveredMarker # NoPin
       THEN /\ lastCalls' = PinClickCalls
            /\ UNCHANGED << isDragging, previousMousePosition >>
       ELSE /\ lastCalls' = GlobeClickCalls
            /\ isDragging' = TRUE
            /\ previousMousePosition' = p
    /\ disposeCalls' = << >>
    /\ UNCHANGED << markers, targetMarkerIndex, isLocked, hasOnUnlock, hasOnLock,
                    hasOnMarkerClick, isLockedRef, targetRotationY, targetRotationX,
                    isAnimating, targetCameraZ, rotY, rotX, cameraZ,
                    hoveredMarker, pins, markerMeshes, sceneLive, frameCount,
                    rafScheduled, listeners, disposed, viewport, pinStyles,
                    pinScales, frameLog, cursor, targetSet >>

\* onMouseUp also ending the animation
OnMouseUp_StopsAnimating ==
    /\ "mouseup" \in listeners
    /\ isDragging' = FALSE
    /\ isAnimating' = FALSE
    /\ lastCalls' = << >>
    /\ disposeCalls' = << >>
    /\ UNCHANGED << markers, targetMarkerIndex, isLocked, hasOnUnlock, hasOnLock,
                    hasOnMarkerClick, isLockedRef, targetRotationY, targetRotationX,
                    targetCameraZ, rotY, rotX, cameraZ,
                    previousMousePosition, hoveredMarker, pins,
                    markerMeshes, sceneLive, frameCount, rafScheduled, listeners,
                    disposed, viewport, pinStyles, pinScales, frameLog, cursor, targetSet >>

(***************************************************************************)
(* onMouseUp                                                               *)
(***************************************************************************)
OnMouseUp ==
    /\ "mouseup" \in listeners
    /\ isDragging' = FALSE
    /\ lastCalls' = << >>
    /\ disposeCalls' = << >>
    /\ UNCHANGED << markers, targetMarkerIndex, isLocked, hasOnUnlock, hasOnLock,
                    hasOnMarkerClick, isLockedRef, targetRotationY, targetRotationX,
                    isAnimating, targetCameraZ, rotY, rotX, cameraZ,
                    previousMousePosition, hoveredMarker, pins,
                    markerMeshes, sceneLive, frameCount, rafScheduled, listeners,
                    disposed, viewport, pinStyles, pinScales, frameLog, cursor, targetSet >>

\* onResize also moving the camera back to the zoomed-out distance
OnResize_ResetsZoom(size) ==
    /\ "resize" \in listeners
    /\ viewport' = size
    /\ cameraZ' = ZOOM_OUT
    /\ lastCalls' = << >>
    /\ disposeCalls' = << >>
    /\ UNCHANGED << markers, targetMarkerIndex, isLocked, hasOnUnlock, hasOnLock,
                    hasOnMarkerClick, isLockedRef, targetRotationY, targetRotationX,
                    isAnimating, targetCameraZ, rotY, rotX, isDragging,
                    previousMousePosition, hoveredMarker, pins,
                    markerMeshes, sceneLive, frameCount, rafScheduled, listeners,
                    disposed, pinStyles, pinScales, frameLog, cursor, targetSet >>

(***************************************************************************)
(* onResize: size is the new window.innerWidth, window.innerHeight.        *)
(***************************************************************************)
OnResize(size) ==
    /\ "resize" \in listeners
    /\ viewport' = size
    /\ lastCalls' = << >>
    /\ disposeCalls' = << >>
    /\ UNCHANGED << markers, targetMarkerIndex, isLocked, hasOnUnlock, hasOnLock,
                    hasOnMarkerClick, isLockedRef, targetRotationY, targetRotationX,
                    isAnimating, targetCameraZ, rotY, rotX, cameraZ, isDragging,
                    previousMousePosition, hoveredMarker, pins,
                    markerMeshes, sceneLive, frameCount, rafScheduled, listeners,
                    disposed, pinStyles, pinScales, frameLog, cursor, targetSet >>

(***************************************************************************)
(* A render with new props, followed by the effects whose dependencies     *)
(* changed, in source order: the lock-sync effect [isLocked], the target   *)
(* effect [targetMarkerIndex, isLocked, markers.length] and the marker     *)
(* effect [markers, targetMarkerIndex, isLocked].  newIdentity says that   *)
(* the markers array is a new object, whatever its contents.               *)
(***************************************************************************)
LockSyncRuns(newLocked) == newLocked # isLocked

\* the target effect without targetMarkerIndex among its dependencies
TargetEffectRuns_NoIndex(newLocked, newIndex, newMarkers) ==
    \/ newLocked # isLocked
    \/ Len(newMarkers) # Len(markers)

TargetEffectRuns(newLocked, newIndex, newMarkers) ==
    \/ newIndex # targetMarkerIndex
    \/ newLocked # isLocked
    \/ Len(newMarkers) # Len(markers)

MarkerEffectRuns(newLocked, newIndex, newIdentity) ==
    \/ newIdentity
    \/ newIndex # targetMarkerIndex
    \/ newLocked # isLocked

\* the target effect calling rotateToMarker whatever the lock
RotateToMarkerRuns_NoLock(newLocked, newIndex, newMarkers) ==
    /\ TargetEffectRuns(newLocked, newIndex, newMarkers)
    /\ sceneLive
    /\ Len(newMarkers) > 0
    /\ InRange(newIndex, newMarkers)

\* the target effect reaches rotateToMarker and rotateToMarker passes its guard
RotateToMarkerRuns(newLocked, newIndex, newMarkers) ==
    /\ TargetEffectRuns(newLocked, newIndex, newMarkers)
    /\ newLocked
    /\ sceneLive
    /\ Len(newMarkers) > 0
    /\ InRange(newIndex, newMarkers)

\* rotateToMarker starting the animation before its range guard
StartsAnimating_BeforeGuard(newLocked, newIndex, newMarkers) ==
    /\ TargetEffectRuns(newLocked, newIndex, newMarkers)
    /\ newLocked
    /\ sceneLive

\* the render reaches the assignment to isAnimating in rotateToMarker
StartsAnimating(newLocked, newIndex, newMarkers) ==
    RotateToMarkerRuns(newLocked, newIndex, newMarkers)

\* the lock-sync effect leaving isAnimating alone on unlock
StopsAnimating_Never(newLocked) == FALSE

\* the lock-sync effect stops the animation
StopsAnimating(newLocked) == LockSyncRuns(newLocked) /\ ~newLocked

\* rotateToMarker without the assignment that starts the animation
RotateToMarkerAnimating_Off == FALSE

\* rotateToMarker: the value it leaves in isAnimating
RotateToMarkerAnimating == TRUE

\* the lock-sync effect zooming in on both branches
LockZoom_AlwaysIn(locked) == ZOOM_IN

\* the lock-sync effect: the zoom target for the lock flag
LockZoom(locked) == IF locked THEN ZOOM_IN ELSE ZOOM_OUT

Rerender(newLocked, newIndex, newMarkers, newIdentity, track) ==
    /\ ~disposed
    /\ (newMarkers # markers) => newIdentity
    /\ newLocked # isLocked \/ newIndex # targetMarkerIndex \/ newIdentity
    /\ markers' = newMarkers
    /\ targetMarkerIndex' = newIndex
    /\ isLocked' = newLocked
    /\ IF LockSyncRuns(newLocked)
       THEN /\ isLockedRef' = newLocked
            /\ targetCameraZ' = LockZoom(newLocked)
       ELSE UNCHANGED << isLockedRef, targetCameraZ >>
    /\ IF RotateToMarkerRuns(newLocked, newIndex, newMarkers)
       THEN /\ targetRotationY' = TargetY(newMarkers[newIndex + 1])
            /\ targetRotationX' = TargetX(newMarkers[newIndex + 1])
            /\ targetSet' = IF track
                            THEN [frame |-> frameCount,
                                  distance |-> Distance(rotY, rotX, targetRotationY', targetRotationX')]
                            ELSE targetSet
       ELSE UNCHANGED << targetRotationY, targetRotationX, targetSet >>
    /\ isAnimating' = IF StartsAnimating(newLocked, newIndex, newMarkers)
                      THEN RotateToMarkerAnimating
                      ELSE IF StopsAnimating(newLocked) THEN FALSE ELSE isAnimating
    /\ IF MarkerEffectRuns(newLocked, newIndex, newIdentity) /\ sceneLive
       THEN /\ disposeCalls' = DisposedOnClear(pins)
            /\ pins' = BuildPins(newMarkers)
            /\ markerMeshes' = BuildMeshes(newMarkers)
            /\ pinStyles' = BuildStyles(newMarkers, newIndex, newLocked)
            /\ pinScales' = BuildScales(newMarkers)
            /\ hoveredMarker' = Retire(hoveredMarker)
       ELSE /\ disposeCalls' = << >>
            /\ UNCHANGED << pins, markerMeshes, pinStyles, pinScales, hoveredMarker >>
    /\ lastCalls' = << >>
    /\ UNCHANGED << hasOnUnlock, hasOnLock, hasOnMarkerClick, rotY, rotX, cameraZ,
                    isDragging, previousMousePosition, sceneLive,
                    frameCount, rafScheduled, listeners, disposed, viewport,
                    frameLog, cursor >>

(***************************************************************************)
(* The cleanup of the mount effect (unmount).                              *)
(***************************************************************************)
Dispose ==
    /\ ~disposed
    /\ disposed' = TRUE
    /\ listeners' = listeners \ RemovedListeners
    /\ disposeCalls' = DisposedOnCleanup
    /\ sceneLive' = FALSE
    /\ markerMeshes' = << >>
    /\ cursor' = "default"
    /\ lastCalls' = << >>
    /\ UNCHANGED << markers, targetMarkerIndex, isLocked, hasOnUnlock, hasOnLock,
                    hasOnMarkerClick, isLockedRef, targetRotationY, targetRotationX,
                    isAnimating, targetCameraZ, rotY, rotX, cameraZ, isDragging,
                    previousMousePosition, hoveredMarker, pins,
                    frameCount, rafScheduled, viewport, pinStyles, pinScales,
                    frameLog, targetSet >>

(***************************************************************************)
(* The program: frames, pointer events, renders with new props, unmount.   *)
(***************************************************************************)
Tick == Animate(MaxFrames, 0 .. Len(markerMeshes))

MouseMove == \E p \in Points : OnMouseMove(p, RotCap)

MouseDown == \E p \in DownPoints : OnMouseDown(p)

MouseUp == OnMouseUp

PropsChange ==
    \E newLocked \in BOOLEAN, newIndex \in Indexes, newMarkers \in MarkerLists,
       newIdentity \in BOOLEAN :
        Rerender(newLocked, newIndex, newMarkers, newIdentity, FALSE)

Unmount == Dispose

Next ==
    \/ Tick
    \/ MouseMove
    \/ MouseDown
    \/ MouseUp
    \/ PropsChange
    \/ Unmount

Spec == Init /\ [][Next]_vars

(***************************************************************************)
(* The convergence scenario: the user drags the free globe after mount,    *)
(* the caller locks it, and frames run with the pointer over no pin; once  *)
(* the animation has settled the caller may set the target again.  Frames  *)
(* are fair: every frame requests the next one.                            *)
(***************************************************************************)
ZoomSettled == Abs(targetCameraZ - cameraZ) <= zoomEpsilon

ConvInit ==
    /\ Init
    /\ markers = << MarkerB, MarkerA >>
    /\ targetMarkerIndex \in { 0, 1 }
    /\ ~isLocked
    /\ hasOnUnlock

ConvTick ==
    /\ isLockedRef
    /\ Animate(MaxConvFrames, { 0 })

ConvMouseDown ==
    /\ ~isLockedRef
    /\ \E p \in DownPoints : OnMouseDown(p)

ConvMouseMove ==
    /\ ~isLockedRef
    /\ \E p \in ConvPoints : OnMouseMove(p, ConvRotCap)

ConvMouseUp ==
    /\ ~isLockedRef
    /\ OnMouseUp

ConvPropsChange ==
    /\ ~isDragging
    /\ frameCount <= ConvRetargetBy
    /\ isLockedRef => (~isAnimating /\ ZoomSettled /\ targetSet.frame = 1)
    /\ \E newIndex \in { 0, 1 }, newMarkers \in ConvMarkerLists :
         Rerender(TRUE, newIndex, newMarkers, newMarkers # markers, TRUE)

ConvNext ==
    \/ ConvTick
    \/ ConvMouseDown
    \/ ConvMouseMove
    \/ ConvMouseUp
    \/ ConvPropsChange

ConvSpec == ConvInit /\ [][ConvNext]_vars /\ WF_vars(ConvTick)

(***************************************************************************)
(* The hit-test scenario: two pins, every pointer ray through their heads  *)
(* and stems, frames and pointer events.                                   *)
(***************************************************************************)
HitMarkerLists == { << MarkerB, MarkerA >> }

HitInit == Mount(HitMarkerLists)

HitTick == Animate(MaxFrames, RayHits)

HitNext ==
    \/ HitTick
    \/ MouseMove
    \/ MouseDown
    \/ MouseUp

HitSpec == HitInit /\ [][HitNext]_vars

(***************************************************************************)
(* The lifecycle scenario: one marker, pointer events, window resizes,     *)
(* lock changes by the caller, frames, and the unmount; events keep being  *)
(* offered after the unmount.                                              *)
(***************************************************************************)
Resize == \E size \in Viewports : OnResize(size)

LifeTick == Animate(MaxLifeFrames, 0 .. Len(markerMeshes))

LifeMarkerLists == { << MarkerA >>, << MarkerC >> }

LifeInit ==
    /\ Mount(LifeMarkerLists)
    /\ targetMarkerIndex = 0

LifePropsChange ==
    \E newLocked \in BOOLEAN :
        Rerender(newLocked, targetMarkerIndex, markers, FALSE, FALSE)

LifeNext ==
    \/ LifeTick
    \/ MouseMove
    \/ MouseDown
    \/ MouseUp
    \/ Resize
    \/ LifePropsChange
    \/ Unmount

LifeSpec == LifeInit /\ [][LifeNext]_vars

(***************************************************************************)
(* The hover scenario: frames up to the second hit test, pointer-downs and *)
(* pointer-ups, and renders in which the caller replaces the marker list   *)
(* or changes the lock; the pointer does not drag the globe.               *)
(***************************************************************************)
HoverInit ==
    /\ Init
    /\ targetMarkerIndex = 0

HoverTick == Animate(MaxHoverFrames, 0 .. Len(markerMeshes))

HoverPropsChange ==
    \E newLocked \in BOOLEAN, newMarkers \in MarkerLists, newIdentity \in BOOLEAN :
        Rerender(newLocked, targetMarkerIndex, newMarkers, newIdentity, FALSE)

HoverNext ==
    \/ HoverTick
    \/ MouseDown
    \/ MouseUp
    \/ HoverPropsChange

HoverSpec == HoverInit /\ [][HoverNext]_vars

(***************************************************************************)
(* The pin scenario: the caller mounts the globe with, and later supplies, *)
(* marker lists whose markers carry a confidence (in or out of 0..100), a  *)
(* color, or neither; every render rebuilds the pins.                      *)
(***************************************************************************)
Confidences == { 0 - 40, 0, 10, 50, 100, 150 }

PinMarkers ==
    { MarkerA, [lat |-> 0, long |-> 0, confidence |-> 100, color |-> "#00ff00"] }
    \cup { [lat |-> 0, long |-> 0, confidence |-> c] : c \in Confidences }

PinMarkerLists ==
    { << m >> : m \in PinMarkers } \cup { << MarkerB, m >> : m \in PinMarkers }

PinInit == Mount(PinMarkerLists)

PinPropsChange ==
    \E newLocked \in BOOLEAN, newIndex \in Indexes, newMarkers \in PinMarkerLists :
        Rerender(newLocked, newIndex, newMarkers, TRUE, FALSE)

PinNext == PinPropsChange

PinSpec == PinInit /\ [][PinNext]_vars

(***************************************************************************)
(* The caller scenario: the caller renders any lock flag, target index and *)
(* marker list, among them lists of the same length with other             *)
(* coordinates, between frames, pointer-downs and pointer-ups.             *)
(***************************************************************************)
CallerMarkerLists == { << >>, << MarkerA >>, << MarkerC >>, << MarkerB, MarkerA >> }

CallerInit == Mount(CallerMarkerLists)

CallerPropsChange ==
    \E newLocked \in BOOLEAN, newIndex \in Indexes, newMarkers \in CallerMarkerLists,
       newIdentity \in BOOLEAN :
        Rerender(newLocked, newIndex, newMarkers, newIdentity, FALSE)

CallerNext ==
    \/ Tick
    \/ MouseDown
    \/ MouseUp
    \/ CallerPropsChange

CallerSpec == CallerInit /\ [][CallerNext]_vars

(***************************************************************************)
(* Properties                                                              *)
(***************************************************************************)
ValidIndex(i, ms) == 0 <= i /\ i <= Len(ms) - 1

\* the orientation target of a marker: Y = 80 degrees - long, X = lat
ExpectedRotationY(m) == (80 - m.long) * 17453
ExpectedRotationX(m) == m.lat * 17453

CallCount(name, calls) == Cardinality({ k \in 1 .. Len(calls) : calls[k][1] = name })

\* this step is a frame of the render loop
FrameStep == frameCount' = frameCount + 1

\* this step is a pointer-down on the hovered pin / on anything else
PinDown == MouseDown /\ hoveredMarker # NoPin
GlobeDown == MouseDown /\ hoveredMarker = NoPin

RotationKept == rotY' = rotY /\ rotX' = rotX
TargetKept == targetRotationY' = targetRotationY /\ targetRotationX' = targetRotationX

\* C1: every step that takes the globe from Free to Locked with an in-range
\* targetMarkerIndex i leaves targetRotationX/Y equal to the orientation
\* target of markers[i], targetCameraZ equal to 2.5 and isAnimating true.
C1_LockSetsTarget ==
    [][ (~isLockedRef /\ isLockedRef' /\ ValidIndex(targetMarkerIndex', markers'))
        => /\ targetRotationY' = ExpectedRotationY(markers'[targetMarkerIndex' + 1])
           /\ targetRotationX' = ExpectedRotationX(markers'[targetMarkerIndex' + 1])
           /\ targetCameraZ' = 2500000
           /\ isAnimating' ]_vars

\* the globe was free during every frame so far (the camera never left 4.5),
\* a pin was hovered, and the globe is now locked on that pin's marker
C1_Witness ==
    /\ isLockedRef
    /\ isAnimating
    /\ cameraZ = 4500000
    /\ targetCameraZ = 2500000
    /\ hoveredMarker.gen = "old"
    /\ hoveredMarker.markerIndex = targetMarkerIndex
    /\ ValidIndex(targetMarkerIndex, markers)
    /\ targetRotationY = ExpectedRotationY(markers[targetMarkerIndex + 1])
    /\ targetRotationX = ExpectedRotationX(markers[targetMarkerIndex + 1])

\* C2 as stated: a pointer-down that is not on a pin while the globe is Locked
\* makes the globe Free at once, with isAnimating false and targetCameraZ 4.5,
\* and leaves the current rotation and targetRotationX/Y unchanged.
C2_Original ==
    [][ (GlobeDown /\ isLockedRef)
        => /\ ~isLockedRef'
           /\ ~isAnimating'
           /\ targetCameraZ' = 4500000
           /\ RotationKept
           /\ TargetKept ]_vars

\* C2 amended: a pointer-down that is not on a pin while Locked invokes
\* onUnlock (when supplied) and starts a drag, and changes neither the lock
\* flag, isAnimating, targetCameraZ, the rotation nor the rotation target; no
\* frame changes the rotation while the drag lasts; and the step in which the
\* caller's isLocked = false takes effect makes the globe Free with isAnimating
\* false and targetCameraZ 4.5, rotation and rotation target unchanged.
C2_UnlockByCaller ==
    /\ [][ (GlobeDown /\ isLockedRef)
           => /\ lastCalls' = IF hasOnUnlock THEN << << "onUnlock" >> >> ELSE << >>
              /\ isDragging'
              /\ isLockedRef'
              /\ isAnimating' = isAnimating
              /\ targetCameraZ' = targetCameraZ
              /\ RotationKept
              /\ TargetKept ]_vars
    /\ [][ (FrameStep /\ isDragging) => (RotationKept /\ isAnimating' = isAnimating) ]_vars
    /\ [][ (isLockedRef /\ ~isLockedRef')
           => /\ ~isAnimating'
              /\ targetCameraZ' = 4500000
              /\ RotationKept
              /\ TargetKept ]_vars

\* a drag has just started on the locked, animating globe
C2_Witness ==
    /\ isLockedRef
    /\ isAnimating
    /\ isDragging
    /\ lastCalls = << << "onUnlock" >> >>
    /\ targetCameraZ = 2500000

\* C3: a pointer-down that is not on a pin while the globe is Locked invokes
\* the supplied onUnlock exactly once; no other step invokes it (not while
\* Free, not a pointer-down on the hovered pin, no frame, no render).
C3_OnUnlock ==
    [][ /\ (GlobeDown /\ isLockedRef /\ hasOnUnlock)
           => CallCount("onUnlock", lastCalls') = 1
        /\ ~(GlobeDown /\ isLockedRef)
           => CallCount("onUnlock", lastCalls') = 0 ]_vars

C3_Witness ==
    /\ hasOnUnlock
    /\ isLocked
    /\ CallCount("onUnlock", lastCalls) = 1
    /\ Len(lastCalls) = 1

\* C4 as stated: a pin click made while the globe is already Locked does not
\* invoke onLock.
C4_Original ==
    [][ (PinDown /\ isLockedRef) => CallCount("onLock", lastCalls') = 0 ]_vars

\* C4 amended: every pointer-down on the hovered pin invokes the supplied
\* onLock exactly once, whether the globe is Free or already Locked, and no
\* other step invokes it.
C4_OnLockEveryPinClick ==
    [][ /\ (PinDown /\ hasOnLock) => CallCount("onLock", lastCalls') = 1
        /\ ~PinDown => CallCount("onLock", lastCalls') = 0 ]_vars

\* onLock has just been invoked by a pin click on the locked globe
C4_Witness ==
    /\ isLockedRef
    /\ hoveredMarker # NoPin
    /\ CallCount("onLock", lastCalls) = 1

\* C5: every pointer-down on the hovered pin invokes onMarkerClick exactly
\* once, after onLock, with the index of that pin, which is an index of the
\* marker list (0 <= index < markers.length); a pointer-down that is not on a
\* pin does not invoke onMarkerClick.
C5_Original ==
    [][ /\ (PinDown /\ hasOnLock /\ hasOnMarkerClick)
           => \E i \in 0 .. Len(markers) - 1 :
                 /\ hoveredMarker.markerIndex = i
                 /\ lastCalls' = << << "onLock" >>, << "onMarkerClick", i >> >>
        /\ GlobeDown => CallCount("onMarkerClick", lastCalls') = 0 ]_vars

\* C6: when targetMarkerIndex changes to an in-range j while isLocked stays
\* true, targetRotationX/Y become the orientation target of markers[j] and
\* isAnimating becomes true; the lock flag stays true, targetCameraZ stays
\* 2.5, and neither onUnlock nor onLock is invoked.
C6_Retarget ==
    [][ (isLocked /\ isLocked' /\ targetMarkerIndex' # targetMarkerIndex
            /\ ValidIndex(targetMarkerIndex', markers'))
        => /\ targetRotationY' = ExpectedRotationY(markers'[targetMarkerIndex' + 1])
           /\ targetRotationX' = ExpectedRotationX(markers'[targetMarkerIndex' + 1])
           /\ isAnimating'
           /\ isLockedRef /\ isLockedRef'
           /\ targetCameraZ = 2500000 /\ targetCameraZ' = 2500000
           /\ CallCount("onUnlock", lastCalls') = 0
           /\ CallCount("onLock", lastCalls') = 0 ]_vars

\* the globe has been locked since mount (the camera has zoomed in on every
\* frame), has turned toward a marker at latitude 45, and now targets a
\* marker on the equator
C6_Witness ==
    /\ isLockedRef
    /\ isAnimating
    /\ frameCount = 3
    /\ cameraZ = 4161168
    /\ rotX > 0
    /\ ValidIndex(targetMarkerIndex, markers)
    /\ markers[targetMarkerIndex + 1].lat = 0
    /\ targetRotationX = 0
    /\ targetRotationY = ExpectedRotationY(markers[targetMarkerIndex + 1])

\* C7: a render that asks for the lock with an out-of-range targetMarkerIndex
\* (negative, or >= markers.length, any index when the list is empty) leaves
\* targetRotationX/Y and isAnimating as they were (so does every step to such
\* a state that is not a frame); at mount they keep their initial values.
C7_OutOfRangeNoOp ==
    /\ (isLocked /\ ~ValidIndex(targetMarkerIndex, markers))
         => (targetRotationY = 0 /\ targetRotationX = 0 /\ ~isAnimating)
    /\ [][ (isLocked' /\ ~ValidIndex(targetMarkerIndex', markers') /\ ~FrameStep)
           => (TargetKept /\ isAnimating' = isAnimating) ]_vars

\* locked with an out-of-range index while the animation toward the earlier
\* in-range target is still on
C7_Witness ==
    /\ isLocked
    /\ ~ValidIndex(targetMarkerIndex, markers)
    /\ isAnimating
    /\ targetRotationY # 0

DeltaY == targetRotationY - rotY
DeltaX == targetRotationX - rotX

\* both rotation axes are within 0.01 rad of the target
NearTarget == Abs(DeltaY) <= 10000 /\ Abs(DeltaX) <= 10000

\* frames run since the rotation target was set
FramesSinceTarget == frameCount - targetSet.frame

C9_Original ==
    isAnimating => \/ Abs(DeltaY) > 1000
                   \/ Abs(DeltaX) > 1000
                   \/ Abs(targetCameraZ - cameraZ) > 10000

\* C9 amended: isAnimating is true only while the globe is Locked; it becomes
\* true only in a step that sets the rotation target from the in-range target
\* marker, wherever the rotation and the camera are; a frame that finds the
\* globe locked, animating and not dragged with both rotation deltas under
\* 0.001 rad clears it; and it is cleared only by such a frame or by unlocking.
C9_RequestFlag ==
    /\ [](isAnimating => isLockedRef)
    /\ [][ (~isAnimating /\ isAnimating')
           => /\ isLockedRef'
              /\ ValidIndex(targetMarkerIndex', markers')
              /\ targetRotationY' = ExpectedRotationY(markers'[targetMarkerIndex' + 1])
              /\ targetRotationX' = ExpectedRotationX(markers'[targetMarkerIndex' + 1]) ]_vars
    /\ [][ (FrameStep /\ isLockedRef /\ isAnimating /\ ~isDragging
              /\ Abs(DeltaY) < 1000 /\ Abs(DeltaX) < 1000)
           => ~isAnimating' ]_vars
    /\ [][ (isAnimating /\ ~isAnimating')
           => \/ ~isLockedRef'
              \/ FrameStep /\ ~isDragging /\ Abs(DeltaY) < 1000 /\ Abs(DeltaX) < 1000 ]_vars

\* isAnimating is on although rotation and camera are all within epsilon
C9_Witness ==
    /\ isAnimating
    /\ Abs(DeltaY) <= 1000
    /\ Abs(DeltaX) <= 1000
    /\ Abs(targetCameraZ - cameraZ) <= 10000

\* C10: after the cleanup has run, no further frame of animate executes.
C10_Original == [][disposed => ~FrameStep]_vars

\* C11: a frame that runs after the cleanup exits before touching the scene:
\* it leaves the hovered pin, the rotation, isAnimating and the camera
\* distance as they were.
C11_Original ==
    [][ (disposed /\ FrameStep)
        => /\ hoveredMarker' = hoveredMarker
           /\ RotationKept
           /\ isAnimating' = isAnimating
           /\ cameraZ' = cameraZ ]_vars

PinPrimitives(children) ==
    UNION { { [object |-> "head", pin |-> children[k].markerIndex, kind |-> "geometry"],
              [object |-> "stem", pin |-> children[k].markerIndex, kind |-> "geometry"],
              [object |-> "pin", pin |-> children[k].markerIndex, kind |-> "material"] }
            : k \in 1 .. Len(children) }

GlobePrimitives ==
    { [object |-> "globe", pin |-> 0 - 1, kind |-> "geometry"],
      [object |-> "globe", pin |-> 0 - 1, kind |-> "material"] }

TimesDisposed(r, calls) == Cardinality({ k \in 1 .. Len(calls) : calls[k] = r })

\* C13: a render that applies a marker list releases the geometry of the head
\* and of the stem and the material of every pin of the previous generation
\* exactly once.
C13_Original ==
    [][ PropsChange
        => \A r \in PinPrimitives(pins) : TimesDisposed(r, disposeCalls') = 1 ]_vars

\* C14: the cleanup releases the geometry and the material of the globe and
\* of every pin exactly once.
C14_Original ==
    [][ (~disposed /\ disposed')
        => \A r \in GlobePrimitives \cup PinPrimitives(pins) :
              TimesDisposed(r, disposeCalls') = 1 ]_vars

\* C15: the hovered pin consulted by a pointer-down is the result of a hit
\* test run within the last 3 frames against the pins now in markerGroup.  A
\* hovered pin of the current generation was found or confirmed by the latest
\* hit test, at most 2 frames ago; a hovered pin of an earlier generation was
\* found before the latest rebuild and has not been tested since.
C15_Original ==
    [][ PinDown
        => /\ hoveredMarker.gen = "cur"
           /\ ValidIndex(hoveredMarker.markerIndex, markers)
           /\ pins[hoveredMarker.markerIndex + 1] = hoveredMarker ]_vars

\* this step is a frame that runs the hit test
HitTestStep == FrameStep /\ frameCount' % 3 = 0

\* C16: with an empty marker list the hit test leaves no pin hovered, a
\* pointer-down with no pin hovered invokes neither onLock nor onMarkerClick,
\* and a render that empties the list without changing isLocked leaves the
\* lock flag as it was.
C16_Original ==
    /\ [][ (HitTestStep /\ markers = << >>) => hoveredMarker' = NoPin ]_vars
    /\ [][ (MouseDown /\ hoveredMarker = NoPin)
           => /\ CallCount("onLock", lastCalls') = 0
              /\ CallCount("onMarkerClick", lastCalls') = 0 ]_vars
    /\ [][ (markers # << >> /\ markers' = << >> /\ isLocked' = isLocked)
           => isLockedRef' = isLockedRef ]_vars

HasConfidence(m) == "confidence" \in DOMAIN m
HasColor(m) == "color" \in DOMAIN m

\* C17: the height scale of the pin of a marker with confidence c in 0..100
\* is 0.5 + (c / 100) * 1.5, in thousandths 500 + 15 * c: 0.5 at 0, 1.25 at
\* 50, 2.0 at 100, increasing with c.
C17_Original ==
    \A k \in 1 .. Len(markers) :
        (HasConfidence(markers[k]) /\ markers[k].confidence \in 0 .. 100)
        => pinStyles[k].heightScale = 500 + 15 * markers[k].confidence

\* C18: the pin of a marker with confidence below 0 has the height scale and
\* the gradient color of confidence 0 (0.5, blue), the pin of a marker with
\* confidence above 100 those of confidence 100 (2.0, green), and every height
\* scale lies in [0.5, 2.0].
C18_Original ==
    \A k \in 1 .. Len(markers) :
        /\ pinStyles[k].heightScale >= 500
        /\ pinStyles[k].heightScale <= 2000
        /\ (HasConfidence(markers[k]) /\ ~(isLocked /\ k - 1 = targetMarkerIndex)
              /\ ~HasColor(markers[k]))
           => /\ markers[k].confidence < 0
                 => (pinStyles[k].heightScale = 500
                       /\ pinStyles[k].color = "rgb(50, 100, 255)")
              /\ markers[k].confidence > 100
                 => (pinStyles[k].heightScale = 2000
                       /\ pinStyles[k].color = "rgb(50, 255, 100)")

\* the gradient color at the confidences 0, 10, 50 and 100: blue, one fifth
\* of the way from blue to cyan, cyan, green
GradientAt(c) ==
    IF c = 0 THEN "rgb(50, 100, 255)"
    ELSE IF c = 10 THEN "rgb(40, 120, 244)"
    ELSE IF c = 50 THEN "rgb(0, 200, 200)"
    ELSE "rgb(50, 255, 100)"

\* C19: a pin is red exactly when the globe is locked and the pin's index is
\* targetMarkerIndex; any other pin has the marker's color when the marker
\* has one, else the gradient color of the marker's confidence.
C19_Original ==
    \A k \in 1 .. Len(markers) :
        /\ pinStyles[k].color = "#ff0000" <=> (isLocked /\ k - 1 = targetMarkerIndex)
        /\ (~(isLocked /\ k - 1 = targetMarkerIndex) /\ HasColor(markers[k]))
           => pinStyles[k].color = markers[k].color
        /\ (~(isLocked /\ k - 1 = targetMarkerIndex) /\ ~HasColor(markers[k])
              /\ HasConfidence(markers[k]) /\ markers[k].confidence \in { 0, 10, 50, 100 })
           => pinStyles[k].color = GradientAt(markers[k].confidence)

\* this step is a render that applies another marker list with
\* targetMarkerIndex and isLocked unchanged
MarkersOnlyChange ==
    markers' # markers /\ targetMarkerIndex' = targetMarkerIndex /\ isLocked' = isLocked

\* C20 as stated: a render that applies a new marker list, targetMarkerIndex
\* and isLocked unchanged, leaves the rotation, the rotation target,
\* targetCameraZ, isAnimating and the lock flag unchanged.
C20_Original ==
    [][ MarkersOnlyChange
        => /\ RotationKept
           /\ TargetKept
           /\ targetCameraZ' = targetCameraZ
           /\ isAnimating' = isAnimating
           /\ isLockedRef' = isLockedRef ]_vars

\* C20 amended: such a render leaves the rotation, the camera distance,
\* targetCameraZ and the lock flag unchanged.  It leaves the rotation target
\* and isAnimating unchanged when the list has the length of the previous
\* one, when the globe is not locked or when targetMarkerIndex is out of
\* range of the new list; when the globe is locked, the length differs and
\* targetMarkerIndex is in range, the rotation target becomes that of the new
\* list's marker at targetMarkerIndex and isAnimating becomes true.
C20_MarkersChange ==
    [][ MarkersOnlyChange
        => /\ RotationKept
           /\ cameraZ' = cameraZ
           /\ targetCameraZ' = targetCameraZ
           /\ isLockedRef' = isLockedRef
           /\ IF isLocked /\ Len(markers') # Len(markers)
                 /\ ValidIndex(targetMarkerIndex, markers')
              THEN /\ targetRotationY' = ExpectedRotationY(markers'[targetMarkerIndex + 1])
                   /\ targetRotationX' = ExpectedRotationX(markers'[targetMarkerIndex + 1])
                   /\ isAnimating'
              ELSE TargetKept /\ isAnimating' = isAnimating ]_vars

\* locked since mount, the globe has tilted toward a marker at latitude 45
\* at index 0 and now targets the equator marker that a shorter list has at
\* the same index
C20_Witness ==
    /\ isLocked
    /\ frameCount = 3
    /\ cameraZ = 4161168
    /\ rotX > 0
    /\ targetMarkerIndex = 0
    /\ markers = << [lat |-> 0, long |-> 0] >>
    /\ targetRotationX = 0
    /\ targetRotationY = 80 * 17453
    /\ isAnimating

\* this step is a resize event that the window delivers with a new size
ResizeStep == viewport' # viewport

\* C21: a resize event changes the viewport (camera aspect, renderer size)
\* and nothing else: the rotation, the rotation target, targetCameraZ, the
\* camera distance, isAnimating, the lock flag, the drag state and the
\* hovered pin are as before, and no callback is invoked.
C21_ResizeOnlyViewport ==
    [][ ResizeStep
        => /\ RotationKept
           /\ TargetKept
           /\ targetCameraZ' = targetCameraZ
           /\ cameraZ' = cameraZ
           /\ isAnimating' = isAnimating
           /\ isLockedRef' = isLockedRef
           /\ isLocked' = isLocked
           /\ isDragging' = isDragging
           /\ previousMousePosition' = previousMousePosition
           /\ hoveredMarker' = hoveredMarker
           /\ pinScales' = pinScales
           /\ lastCalls' = << >> ]_vars

\* the window has been resized while the globe was locked, animating, zooming,
\* being dragged and with a pin hovered
C21_Witness ==
    /\ viewport = << 800, 600 >>
    /\ ~disposed
    /\ isLockedRef
    /\ isAnimating
    /\ isDragging
    /\ hoveredMarker # NoPin
    /\ cameraZ # targetCameraZ
    /\ rotY # targetRotationY

\* how often a step occurs in the log of a frame, and where
StepCount(name, log) == Cardinality({ k \in 1 .. Len(log) : log[k] = name })
StepAt(name, log) == CHOOSE k \in 1 .. Len(log) : log[k] = name

\* C23: every frame takes its steps in one order: the hit test first, on the
\* frames on which it is due and on no other; then the spin of the stars, the
\* camera zoom, the rotation of the globe, and the draw call; the draw call
\* happens once, and the frame requests one next frame, after the draw call.
C23_TickOrder ==
    [][ FrameStep
        => /\ StepCount("handleRaycast", frameLog')
                = (IF frameCount' % 3 = 0 THEN 1 ELSE 0)
           /\ frameCount' % 3 = 0 => StepAt("handleRaycast", frameLog') = 1
           /\ \A name \in { "stars", "zoom", "rotation", "render",
                             "requestAnimationFrame" } :
                 StepCount(name, frameLog') = 1
           /\ StepAt("stars", frameLog') < StepAt("zoom", frameLog')
           /\ StepAt("zoom", frameLog') < StepAt("rotation", frameLog')
           /\ StepAt("rotation", frameLog') < StepAt("render", frameLog')
           /\ StepAt("render", frameLog') < StepAt("requestAnimationFrame", frameLog')
           /\ Len(frameLog') = (IF frameCount' % 3 = 0 THEN 6 ELSE 5)
           /\ rafScheduled' ]_vars

\* the sixth frame has run: a frame with the hit test, after frames without it
\* and after frames that zoomed and rotated the globe toward its target
C23_Witness ==
    /\ frameCount = 6
    /\ frameLog = << "handleRaycast", "stars", "zoom", "rotation", "render",
                     "requestAnimationFrame" >>
    /\ rafScheduled
    /\ isLockedRef
    /\ cameraZ < ZOOM_OUT
    /\ rotY # 0

\* the object hoveredMarker refers to is the same after this step (a render
\* that rebuilds the pins leaves the reference alone; the object it refers to
\* is then a removed pin)
SameHoveredObject ==
    hoveredMarker' = hoveredMarker \/ hoveredMarker' = Retire(hoveredMarker)

\* C24: a frame runs the hit test if and only if its frame count is a
\* multiple of 3, no step other than a frame runs any part of animate, and
\* the hovered pin changes only in a frame whose count is a multiple of 3.
C24_HitTestCadence ==
    /\ [][ FrameStep
            => (StepCount("handleRaycast", frameLog') = 1 <=> frameCount' % 3 = 0) ]_vars
    /\ [][ ~FrameStep => frameLog' = frameLog ]_vars
    /\ [][ ~SameHoveredObject => (FrameStep /\ frameCount' % 3 = 0) ]_vars

\* a pin hovered by the hit test of frame 3 is still hovered, and scaled up,
\* after frames 4 and 5 and the events between them
C24_Witness ==
    /\ frameCount = 5
    /\ hoveredMarker = [gen |-> "cur", markerIndex |-> 0]
    /\ pinScales = << hoverScale >>
    /\ frameLog = << "stars", "zoom", "rotation", "render", "requestAnimationFrame" >>
    /\ isDragging

\* the pins the hit test can resolve: the owners of the meshes it tests
ResolvablePins == { markerMeshes[k].pin : k \in DOMAIN markerMeshes }

\* C25: after a frame that runs the hit test the hovered pin is the pin the
\* test resolved, one of the pins of the scene, or none; the hovered pin of
\* the scene has scale 1.2 and every other pin has scale 1, so at most one
\* pin has scale 1.2.
C25_Original ==
    /\ [][ HitTestStep => hoveredMarker' \in ResolvablePins' \cup { NoPin } ]_vars
    /\ [](\A k \in DOMAIN pinScales :
             pinScales[k] = (IF hoveredMarker = pins[k] THEN hoverScale ELSE restScale))
    /\ [](Cardinality({ k \in DOMAIN pinScales : pinScales[k] = hoverScale }) <= 1)

\* the pin that owns the mesh at index k of markerMeshes
OwnerOf(k) == pins[(k + 1) \div 2]

\* C26: for every pointer ray, the pin the hit test resolves is the pin that
\* owns a mesh whose intersection is nearest to the camera, and none when the
\* ray meets no mesh; the head and the stem of a pin both resolve to that
\* pin, which is a pin of markerGroup.
C26_NearestPin ==
    /\ \A ray \in Rays(Len(markerMeshes)) :
         LET hit == FirstObject(IntersectObjects(ray))
         IN  IF DOMAIN ray = {}
             THEN HoveredPinGroup(hit) = NoPin
             ELSE /\ hit \in DOMAIN ray
                  /\ \A k \in DOMAIN ray : ray[hit] <= ray[k]
                  /\ HoveredPinGroup(hit) = OwnerOf(hit)
    /\ \A i \in DOMAIN pins :
         /\ markerMeshes[2 * i - 1].part = "head"
         /\ markerMeshes[2 * i].part = "stem"
         /\ HoveredPinGroup(2 * i - 1) = pins[i]
         /\ HoveredPinGroup(2 * i) = pins[i]
    /\ hoveredMarker # NoPin => \E i \in DOMAIN pins : hoveredMarker = pins[i]

\* the hit test of frame 3 has resolved the second of two pins
C26_Witness ==
    /\ frameCount = 3
    /\ Len(pins) = 2
    /\ hoveredMarker = pins[2]
    /\ pinScales = << restScale, hoverScale >>

\* the rotation and the animation flag after this step are what the rotation
\* branch of a frame makes of them, whatever the pointer is over
RotationBranchOnly ==
    /\ rotY' = (IF isLockedRef /\ isAnimating /\ ~isDragging
                THEN rotY + Scale(targetRotationY - rotY, 5, 100)
                ELSE IF ~isLockedRef /\ ~isDragging /\ ~isAnimating
                     THEN rotY + passiveSpin ELSE rotY)
    /\ rotX' = (IF isLockedRef /\ isAnimating /\ ~isDragging
                THEN rotX + Scale(targetRotationX - rotX, 5, 100) ELSE rotX)
    /\ isAnimating' = (isAnimating /\ ~(/\ isLockedRef
                                         /\ ~isDragging
                                         /\ Abs(targetRotationY - rotY) < 1000
                                         /\ Abs(targetRotationX - rotX) < 1000))

\* C27: a frame that runs the hit test, whether or not the hovered pin
\* changes in it, leaves the lock flag, the rotation target and targetCameraZ
\* alone, moves the rotation and isAnimating exactly as a frame does on any
\* pointer position, and invokes no callback; a callback is invoked by a
\* pointer-down only.
C27_HoverNoEffect ==
    /\ [][ HitTestStep
            => /\ isLockedRef' = isLockedRef
               /\ isLocked' = isLocked
               /\ TargetKept
               /\ targetCameraZ' = targetCameraZ
               /\ RotationBranchOnly
               /\ lastCalls' = << >> ]_vars
    /\ [][ lastCalls' # << >> => MouseDown ]_vars

\* the hit test of frame 6 has moved the hover onto a pin while the globe was
\* locked and animating toward its target
C27_Witness ==
    /\ frameCount = 6
    /\ Head(frameLog) = "handleRaycast"
    /\ hoveredMarker = [gen |-> "cur", markerIndex |-> 0]
    /\ pinScales = << hoverScale >>
    /\ isLockedRef
    /\ isAnimating
    /\ rotY # targetRotationY
    /\ lastCalls = << >>

\* C28: in every frame, locked or free, dragging or not, a camera distance
\* more than 0.01 from targetCameraZ moves toward it by 0.06 of the
\* difference, which brings it strictly nearer without passing the target,
\* and a nearer one stays; the camera distance is always between 2.5 and 4.5.
C28_ZoomSmoothing ==
    /\ [][ FrameStep
            => IF Abs(targetCameraZ - cameraZ) > 10000
               THEN /\ cameraZ' = cameraZ + Scale(targetCameraZ - cameraZ, 6, 100)
                    /\ Abs(targetCameraZ' - cameraZ') < Abs(targetCameraZ - cameraZ)
                    /\ (targetCameraZ > cameraZ) => (targetCameraZ' > cameraZ')
                    /\ (targetCameraZ < cameraZ) => (targetCameraZ' < cameraZ')
               ELSE cameraZ' = cameraZ ]_vars
    /\ [](cameraZ >= 2500000 /\ cameraZ <= 4500000)

\* the camera is on its way back out, during a drag of the free globe, after
\* it had zoomed in while the globe was locked
C28_Witness ==
    /\ frameCount = 6
    /\ ~isLockedRef
    /\ isDragging
    /\ targetCameraZ = ZOOM_OUT
    /\ cameraZ > ZOOM_IN
    /\ cameraZ < ZOOM_OUT - 100000

\* the rotation after this step is the rotation before it, moved by 0.05 of
\* the way to the rotation target on both axes
PulledToTarget ==
    /\ rotY' = rotY + Scale(targetRotationY - rotY, 5, 100)
    /\ rotX' = rotX + Scale(targetRotationX - rotX, 5, 100)

\* C29: a frame of the locked, animating globe that is not being dragged
\* pulls the rotation toward the target, and clears isAnimating exactly when
\* both deltas, taken before the pull, are below 0.001; any other frame, so
\* every frame of the free globe, leaves isAnimating and the X rotation alone
\* and moves the Y rotation by the passive increment or not at all.
C29_ConvergeOnlyLocked ==
    /\ [][ (FrameStep /\ isLockedRef /\ isAnimating /\ ~isDragging)
            => /\ PulledToTarget
               /\ ~isAnimating' <=> (/\ Abs(targetRotationY - rotY) < 1000
                                     /\ Abs(targetRotationX - rotX) < 1000) ]_vars
    /\ [][ (FrameStep /\ ~(isLockedRef /\ isAnimating /\ ~isDragging))
            => /\ isAnimating' = isAnimating
               /\ rotX' = rotX
               /\ rotY' \in { rotY, rotY + passiveSpin } ]_vars

\* the globe was locked after one frame of passive spin, and the frames have
\* pulled it to within 0.001 of the target and cleared isAnimating
C29_Witness ==
    /\ isLockedRef
    /\ ~isAnimating
    /\ ~isDragging
    /\ targetRotationY = 0
    /\ rotY > 0
    /\ rotY < passiveSpin
    /\ frameCount >= 3

\* C30: a frame of the free globe with no drag in progress adds exactly 0.001
\* to the Y rotation and leaves the X rotation alone; a frame of the locked
\* globe never adds the passive increment: it pulls toward the target or
\* leaves the rotation alone.
C30_PassiveSpin ==
    /\ [][ (FrameStep /\ ~isLockedRef /\ ~isDragging)
            => (rotY' = rotY + 1000 /\ rotX' = rotX) ]_vars
    /\ [][ (FrameStep /\ isLockedRef)
            => \/ PulledToTarget /\ isAnimating /\ ~isDragging
               \/ RotationKept ]_vars
    /\ [][ (FrameStep /\ isDragging) => RotationKept ]_vars

\* the free globe has spun in the frame of the mount and in each of the five
\* frames after it
C30_Witness ==
    /\ frameCount = 6
    /\ ~isLockedRef
    /\ ~isDragging
    /\ rotX = 0
    /\ rotY = 6 * passiveSpin

\* during a drag no frame changes the rotation and a pointer-move adds the
\* movement of the pointer times 0.005 to it, the horizontal movement to Y
\* and the vertical one to X; no other event, and no event outside a drag,
\* changes the rotation
DragOverrides ==
    /\ [][ (FrameStep /\ isDragging) => RotationKept ]_vars
    /\ [][ (MouseMove /\ isDragging)
            => /\ rotY' = rotY + (previousMousePosition'[1] - previousMousePosition[1]) * 5000
               /\ rotX' = rotX + (previousMousePosition'[2] - previousMousePosition[2]) * 5000 ]_vars
    /\ [][ (~FrameStep /\ ~MouseMove) => RotationKept ]_vars
    /\ [][ (~FrameStep /\ ~isDragging) => RotationKept ]_vars

\* C31 as stated: during a drag no frame changes the rotation, a pointer-move
\* adds the pointer movement times 0.005 to the rotation, and isAnimating is
\* false from the pointer-down that starts the drag until the pointer-up.
C31_Original ==
    /\ DragOverrides
    /\ [](isDragging => ~isAnimating)

\* C31: during a drag no frame changes the rotation and a pointer-move adds
\* the pointer movement times 0.005 to the rotation; the pointer-down that
\* starts the drag, the pointer-up that ends it and every step in between
\* that does not change the lock flag leave isAnimating as it was, so that it
\* is false during the drag of a free globe and keeps its value during the
\* drag of a locked one.
C31_DragOverrides ==
    /\ DragOverrides
    /\ [][ ((isDragging \/ isDragging') /\ isLockedRef' = isLockedRef)
            => isAnimating' = isAnimating ]_vars
    /\ []((isDragging /\ ~isLockedRef) => ~isAnimating)

\* the locked, animating globe has been dragged for frames and pointer-moves
C31_Witness ==
    /\ isDragging
    /\ isLockedRef
    /\ isAnimating
    /\ previousMousePosition = << 200, 100 >>
    /\ rotX = 500000
    /\ frameCount = 4

\* C32: after a change of the marker list there is one pin per marker of the
\* new list, pin k carrying index k; the raycast list holds the head and the
\* stem of each of these pins and nothing else; and neither the scene, nor
\* the raycast list, nor the hover state refers to a pin built for the
\* previous list.
C32_Original ==
    [][ markers' # markers
        => /\ Len(pins') = Len(markers')
           /\ \A k \in DOMAIN pins' :
                 pins'[k] = [gen |-> "cur", markerIndex |-> k - 1]
           /\ Len(markerMeshes') = 2 * Len(pins')
           /\ \A k \in DOMAIN pins' :
                 /\ markerMeshes'[2 * k - 1] = [pin |-> pins'[k], part |-> "head"]
                 /\ markerMeshes'[2 * k] = [pin |-> pins'[k], part |-> "stem"]
           /\ hoveredMarker'.gen # "old" ]_vars

\* in this step the target effect calls rotateToMarker for an index in range
RetargetStep ==
    /\ isLocked'
    /\ ValidIndex(targetMarkerIndex', markers')
    /\ \/ isLocked' # isLocked
       \/ targetMarkerIndex' # targetMarkerIndex
       \/ Len(markers') # Len(markers)

\* C33: the rotation target the mount computes for a locked globe with an
\* index in range, and the one a later render computes when it calls
\* rotateToMarker, are both Y = 80 degrees - long and X = lat of the marker at
\* the index, in radians: the same target for the same marker.
C33_SameTarget ==
    /\ (isLocked /\ ValidIndex(targetMarkerIndex, markers))
         => /\ targetRotationY = ExpectedRotationY(markers[targetMarkerIndex + 1])
            /\ targetRotationX = ExpectedRotationX(markers[targetMarkerIndex + 1])
    /\ [][ RetargetStep
            => /\ targetRotationY' = ExpectedRotationY(markers'[targetMarkerIndex' + 1])
               /\ targetRotationX' = ExpectedRotationX(markers'[targetMarkerIndex' + 1]) ]_vars

\* the globe is locked to the marker at latitude 45, longitude 90, and the
\* target is -10 and 45 degrees
C33_Witness ==
    /\ isLocked
    /\ markers = << MarkerB, MarkerA >>
    /\ targetMarkerIndex = 0
    /\ targetRotationY = (0 - 10) * 17453
    /\ targetRotationX = 45 * 17453
    /\ isAnimating

\* C34: at every state targetCameraZ is 2.5 if the globe is locked and 4.5 if
\* it is free, whatever the marker list, the target index, the drag and the
\* hover, and the lock flag is the isLocked prop.
C34_ZoomByLock ==
    /\ isLockedRef = isLocked
    /\ targetCameraZ = (IF isLockedRef THEN 2500000 ELSE 4500000)

\* the globe is locked with no marker and no index in range, during a drag
\* and with a pin of an earlier list still hovered
C34_Witness ==
    /\ isLockedRef
    /\ markers = << >>
    /\ targetMarkerIndex = 0 - 1
    /\ isDragging
    /\ hoveredMarker # NoPin
    /\ targetCameraZ = ZOOM_IN

\* C35: at every state of the free globe isAnimating is false.
C35_FreeNotAnimating == ~isLockedRef => ~isAnimating

\* the free globe has an index in range, after it was locked and animating
\* and zoomed in, and the caller has changed the marker list and the index
C35_Witness ==
    /\ ~isLockedRef
    /\ ~isAnimating
    /\ cameraZ < ZOOM_OUT
    /\ targetRotationY = (0 - 10) * 17453
    /\ markers = << MarkerC >>
    /\ targetMarkerIndex = 0
    /\ frameCount = 3

\* C36: a pointer-down on the hovered pin leaves the drag state as it was
\* and does not invoke onUnlock; a drag begins only in a pointer-down that is
\* not on a pin, and every such pointer-down begins or continues one; a drag
\* ends only in a pointer-up, and after every pointer-up no drag is in
\* progress.
C36_DragOnlyOffPin ==
    /\ [][ PinDown
            => /\ isDragging' = isDragging
               /\ previousMousePosition' = previousMousePosition
               /\ CallCount("onUnlock", lastCalls') = 0 ]_vars
    /\ [][ (~isDragging /\ isDragging') => GlobeDown ]_vars
    /\ [][ GlobeDown => isDragging' ]_vars
    /\ [][ (isDragging /\ ~isDragging') => MouseUp ]_vars
    /\ [][ MouseUp => ~isDragging' ]_vars

\* the hovered pin of the locked globe has been clicked, after a drag that a
\* pointer-up ended, and no drag is in progress
C36_Witness ==
    /\ lastCalls = << << "onLock" >>, << "onMarkerClick", 0 >> >>
    /\ hoveredMarker = [gen |-> "cur", markerIndex |-> 0]
    /\ isLockedRef
    /\ ~isDragging
    /\ previousMousePosition = << 200, 100 >>
    /\ rotX = 500000

\* C37: every index onMarkerClick is called with is an index of the marker
\* list of the moment of the call, and the pin a pointer-down finds hovered
\* is one of the pins built for that list.
C37_Original ==
    /\ [][ \A k \in DOMAIN lastCalls' :
              lastCalls'[k][1] = "onMarkerClick"
              => (0 <= lastCalls'[k][2] /\ lastCalls'[k][2] < Len(markers)) ]_vars
    /\ [][ (hoveredMarker # NoPin /\ lastCalls' # << >>)
            => \E i \in DOMAIN pins : hoveredMarker = pins[i] ]_vars

\* C38: at every state in which the globe is locked and targetMarkerIndex is
\* an index of the marker list, the rotation target is the orientation
\* target of the marker now at that index.
C38_Original ==
    [](( isLockedRef /\ ValidIndex(targetMarkerIndex, markers))
        => /\ targetRotationY = ExpectedRotationY(markers[targetMarkerIndex + 1])
           /\ targetRotationX = ExpectedRotationX(markers[targetMarkerIndex + 1]))

\* the caller keeps the globe locked over this step
StaysLocked == isLockedRef /\ isLockedRef'

\* C39: while the caller keeps the globe locked, the pointer-down that
\* starts a drag, every step of the drag and the pointer-up that ends it
\* leave isAnimating as it was; a frame of the locked, animating globe with no
\* drag in progress, the first frame after the pointer-up among them, pulls
\* the rotation toward the target; and a frame of the locked globe that is
\* not animating leaves the rotation where it is.
C39_DragKeepsAnimating ==
    /\ [][ (StaysLocked /\ (isDragging \/ isDragging'))
            => isAnimating' = isAnimating ]_vars
    /\ [][ (FrameStep /\ isLockedRef /\ isAnimating /\ ~isDragging)
            => PulledToTarget ]_vars
    /\ [][ (FrameStep /\ isLockedRef /\ ~isAnimating) => RotationKept ]_vars

\* the locked, animating globe was dragged by (200, 100), released, and the
\* first frame after the pointer-up has pulled it back by 0.05 of the way
C39_Witness ==
    /\ isLockedRef
    /\ isAnimating
    /\ ~isDragging
    /\ previousMousePosition = << 200, 100 >>
    /\ targetRotationX = 0
    /\ rotX = 475000

\* C40: at every state between the mount and the unmount the cursor of the
\* mount element is 'pointer' if hoveredMarker refers to a pin and 'grab' if
\* it refers to none.
C40_CursorTracksHover ==
    ~disposed => cursor = (IF hoveredMarker # NoPin THEN "pointer" ELSE "grab")

\* a hit test has put the hover on the pin during a drag of the locked globe,
\* and the cursor is 'pointer'
C40_Witness ==
    /\ ~disposed
    /\ frameCount = 6
    /\ hoveredMarker = [gen |-> "cur", markerIndex |-> 0]
    /\ cursor = "pointer"
    /\ isDragging
    /\ isLockedRef

====
